---- MODULE Spec2Model ----
(***************************************************************************)
(* A state-machine model of the poisjuoksu pseudo-3D road renderer         *)
(* (src/src/lib.rs): the position sequencer (new / advance / set), the     *)
(* integer square root, and one frame of RoadRenderer::render with its     *)
(* row scan, shoulder wedges, visibility records and sky pass.             *)
(*                                                                         *)
(* Indices are 0-based as in the source: segments is a TLA+ sequence, so   *)
(* segment i of the source is segments[i + 1]; horizon and drawn are       *)
(* functions over 0-based rows and pixels.                                 *)
(*                                                                         *)
(* i32 arithmetic is modelled on the integers; the inputs of the           *)
(* specifications are chosen so that no i32 operation of the renderer      *)
(* overflows (the isqrt loop, where the width matters, is modelled at 32   *)
(* bits).  Segment lengths are non-negative and near is non-zero.          *)
(***************************************************************************)
EXTENDS Integers, Sequences, FiniteSets, TLC

VARIABLES
    segments,       \* RoadRenderer.segments
    near,           \* RoadRenderer.near
    cur_segment,    \* RoadRenderer.cur_segment
    cur_t,          \* RoadRenderer.cur_t
    base_t,         \* RoadRenderer.base_t
    nonneg,         \* history: every advance/set argument since new or the last set was >= 0
    last_call,      \* history: the last position call, "new", "advance" or "set"
    pc,             \* where the program is: "idle", inside render, "done", "panicked"
    screen,         \* <<W, H>> of the running render
    road_width,     \* painter.road_width()
    x_offset, y_offset, z_offset, x_slope, y_slope,   \* locals of render
    t_start, y_start, render_segment,                 \* locals of render
    horizon,        \* [LineVisibility; H]
    drawn,          \* painter log: pixel -> sequence of colours passed to draw
    surface_calls,  \* number of ground_color / road_color calls of this render
    clamped,        \* history: an Uphill wedge of this render started off screen
    sq_num, sq_out, \* argument and result record of the isqrt call under test
    point           \* arguments and results of the last get_screen_pos call

posVars == <<cur_segment, cur_t, base_t, nonneg, last_call>>
cfgVars == <<segments, near>>
frameVars == <<screen, road_width, x_offset, y_offset, z_offset, x_slope, y_slope,
               t_start, y_start, render_segment, horizon, drawn, surface_calls,
               clamped>>
sqVars == <<sq_num, sq_out>>
ptVars == <<point>>
vars == <<cfgVars, posVars, pc, frameVars, sqVars, ptVars>>

----------------------------------------------------------------------------
(* Fixed-point scale and integer helpers *)

FP_POS == 8

MaxI32 == 2147483647

Pow2(k) == 2 ^ k

Abs(a) == IF a < 0 THEN -a ELSE a
Max(a, b) == IF a >= b THEN a ELSE b
Min(a, b) == IF a <= b THEN a ELSE b

\* a << k and a >> k on i32 values that do not overflow (>> is arithmetic).
Shl(a, k) == a * Pow2(k)
Shr(a, k) == a \div Pow2(k)

\* Rust's i32 division truncates toward zero (b # 0).
TruncDiv(a, b) ==
    IF (a >= 0) = (b > 0) THEN Abs(a) \div Abs(b) ELSE -(Abs(a) \div Abs(b))

\* x << k at 32 bits, wrapping, for 0 <= x <= MaxI32 and 0 <= k <= 15.
Shl32(x, k) ==
    IF k = 0 THEN x
    ELSE LET half == Pow2(31 - k)
             q == x \div half
             r == x % half
         IN  IF q % 2 = 1 THEN (r - half) * Pow2(k) ELSE r * Pow2(k)

\* Whether x << k leaves the non-negative i32 range.
ShlOverflows(x, k) == x > MaxI32 \div Pow2(k)

----------------------------------------------------------------------------
(* isqrt, lib.rs 14-33.  The loop state is (v, n, b, bshft); ovf records    *)
(* whether some tmp = ((n << 1) + b) << bshft overflowed 32 bits.           *)

IsqrtStartBit == 15

\* The loop of lib.rs 19-31 with num > tmp as its test (lib.rs 23).
RECURSIVE IsqrtLoopStrict(_, _, _, _, _)
IsqrtLoopStrict(v, n, b, bshft, ovf) ==
    LET tmp == Shl32(Shl(n, 1) + b, bshft)
        o   == ovf \/ ShlOverflows(Shl(n, 1) + b, bshft)
        n1  == IF v > tmp THEN n + b ELSE n
        v1  == IF v > tmp THEN v - tmp ELSE v
        b1  == Shr(b, 1)
    IN  IF b1 = 0 THEN [n |-> n1, ovf |-> o]
        ELSE IsqrtLoopStrict(v1, n1, b1, bshft - 1, o)

\* One pass of the loop of lib.rs 20-31 and the rest of the loop.
RECURSIVE IsqrtLoop(_, _, _, _, _)
IsqrtLoop(v, n, b, bshft, ovf) ==
    LET tmp == Shl32(Shl(n, 1) + b, bshft)
        o   == ovf \/ ShlOverflows(Shl(n, 1) + b, bshft)
        n1  == IF v >= tmp THEN n + b ELSE n
        v1  == IF v >= tmp THEN v - tmp ELSE v
        b1  == Shr(b, 1)
    IN  IF b1 = 0 THEN [n |-> n1, ovf |-> o]
        ELSE IsqrtLoop(v1, n1, b1, bshft - 1, o)

IsqrtRun(num) == IsqrtLoop(num, 0, Pow2(IsqrtStartBit), IsqrtStartBit, FALSE)

isqrt(num) == IsqrtRun(num).n

----------------------------------------------------------------------------
(* Position sequencer, lib.rs 94-119.  A position is the record of the     *)
(* three mutable fields of RoadRenderer.                                   *)

new_pos == [cur_segment |-> 0, cur_t |-> 0, base_t |-> 0]

\* The loop of lib.rs 106-111 as an if: at most one segment is crossed.
AdvanceOnce(segs, p) ==
    IF p.cur_segment < Len(segs)
       /\ p.cur_t >= p.base_t + segs[p.cur_segment + 1].length
    THEN [p EXCEPT !.base_t = @ + segs[p.cur_segment + 1].length,
                   !.cur_segment = @ + 1]
    ELSE p

\* The loop of lib.rs 106-111 without base_t += length (lib.rs 109).
RECURSIVE AdvanceLoopKeepBase(_, _)
AdvanceLoopKeepBase(segs, p) ==
    IF p.cur_segment < Len(segs)
       /\ p.cur_t >= p.base_t + segs[p.cur_segment + 1].length
    THEN AdvanceLoopKeepBase(segs, [p EXCEPT !.cur_segment = @ + 1])
    ELSE p

\* The loop of lib.rs 106-111 with cur_t > base_t + length as its test.
RECURSIVE AdvanceLoopStrict(_, _)
AdvanceLoopStrict(segs, p) ==
    IF p.cur_segment < Len(segs)
       /\ p.cur_t > p.base_t + segs[p.cur_segment + 1].length
    THEN AdvanceLoopStrict(segs, [p EXCEPT !.base_t = @ + segs[p.cur_segment + 1].length,
                                          !.cur_segment = @ + 1])
    ELSE p

\* while cur_segment < segments.len() && cur_t >= base_t + length, lib.rs 106-111
RECURSIVE AdvanceLoop(_, _)
AdvanceLoop(segs, p) ==
    IF /\ p.cur_segment < Len(segs)
       /\ p.cur_t >= p.base_t + segs[p.cur_segment + 1].length
    THEN AdvanceLoop(segs, [p EXCEPT !.base_t = @ + segs[p.cur_segment + 1].length,
                                     !.cur_segment = @ + 1])
    ELSE p

\* advance as a replay from the start of the track, the way set works.
AdvanceReplay(segs, p, step) ==
    AdvanceLoop(segs, [cur_segment |-> 0, cur_t |-> p.cur_t + step, base_t |-> 0])

advance(segs, p, step) == AdvanceLoop(segs, [p EXCEPT !.cur_t = @ + step])

set(segs, p, t) == advance(segs, new_pos, t)

self == [cur_segment |-> cur_segment, cur_t |-> cur_t, base_t |-> base_t]

----------------------------------------------------------------------------
(* Painter log.  draw(x, y, color) appends the colour's kind to the log of  *)
(* pixel <<x, y>>; a pixel that was never drawn is not in the domain.       *)

draw(d, x, y, color) ==
    IF <<x, y>> \in DOMAIN d
    THEN [d EXCEPT ![<<x, y>>] = Append(@, color)]
    ELSE d @@ (<<x, y>> :> <<color>>)

\* LineVisibility{road: false, begin: 0, end: W}, lib.rs 488-491
InitialHorizon(w, h) == [y \in 0 .. h - 1 |-> [road |-> FALSE, begin |-> 0, end |-> w]]

----------------------------------------------------------------------------
(* update_state_at_segment_length, lib.rs 145-183.  a is the projection     *)
(* accumulator [x_offset, y_offset, z_offset, x_slope, y_slope].            *)

SegmentDepth(seg, length, a) ==
    IF seg.y_curve = 0
    THEN LET t_factor == isqrt(Shl(1, 2 * FP_POS) + a.y_slope * a.y_slope)
         IN  [z |-> TruncDiv(Shl(length, FP_POS), t_factor), z2 |-> 0]
    ELSE LET tsqrtcurve == isqrt(Shl(Abs(seg.y_curve), FP_POS))
             z2 == TruncDiv(4 * length, tsqrtcurve)
         IN  [z |-> Shl(isqrt(Shl(z2, FP_POS)), FP_POS \div 2), z2 |-> z2]

update_state_at_segment_length(seg, length, a) ==
    LET d  == SegmentDepth(seg, length, a)
        z  == d.z
        yo == IF seg.y_curve = 0
              THEN a.y_offset + Shr(a.y_slope * z, FP_POS)
              ELSE a.y_offset + seg.y_curve * d.z2 + Shr(a.y_slope * z, FP_POS)
        ys == IF seg.y_curve = 0
              THEN a.y_slope
              ELSE a.y_slope + Shr(seg.y_curve * z * 2, FP_POS)
        xo == IF seg.x_curve = 0
              THEN a.x_offset + Shr(a.x_slope * z, FP_POS)
              ELSE a.x_offset + Shr(Shr(seg.x_curve * z, FP_POS) * z, FP_POS)
                              + Shr(a.x_slope * z, FP_POS)
        xs == IF seg.x_curve = 0
              THEN a.x_slope
              ELSE a.x_slope + Shr(2 * seg.x_curve * z, FP_POS)
    IN  [x_offset |-> xo, y_offset |-> yo, z_offset |-> a.z_offset + z,
         x_slope |-> xs, y_slope |-> ys]

----------------------------------------------------------------------------
(* get_screen_pos, lib.rs 185-235.  p is the position, c the pair of camera *)
(* offsets, pt the triple <<point_t_offset, point_x_offset,                 *)
(* point_y_offset>>.                                                        *)

\* The loop of lib.rs 204-225 from segment rs on, with t_left still to go.
RECURSIVE ScreenPosLoop(_, _, _, _, _)
ScreenPosLoop(segs, p, rs, t_left, a) ==
    IF rs >= Len(segs) THEN a
    ELSE LET seg == segs[rs + 1]
             length_left == seg.length
                            - (IF rs = p.cur_segment THEN p.cur_t - p.base_t ELSE 0)
             length == IF t_left < length_left THEN t_left ELSE length_left
             a1 == update_state_at_segment_length(seg, length, a)
         IN  IF t_left - length = 0 THEN a1
             ELSE ScreenPosLoop(segs, p, rs + 1, t_left - length, a1)

\* The depth with the zero of lib.rs 228-230 passed on as it is.
DepthNotClamped(z) == z

\* lib.rs 228-230: if z_offset == 0 { z_offset = 1 }
ClampDepth(z) == IF z = 0 THEN 1 ELSE z

\* The three results; panicked says that a division of lib.rs 232-234 had
\* the divisor zero.
get_screen_pos(segs, nr, p, w, h, c, pt) ==
    LET a == ScreenPosLoop(segs, p, p.cur_segment, pt[1],
                           [x_offset |-> c[1], y_offset |-> c[2], z_offset |-> 0,
                            x_slope |-> 0, y_slope |-> 0])
        z == ClampDepth(a.z_offset)
    IN  IF z = 0
        THEN [panicked |-> TRUE, x_px |-> 0, y_px |-> 0, inv_z |-> 0]
        ELSE [panicked |-> FALSE,
              inv_z |-> TruncDiv(Shl(1, 3 * FP_POS), z),
              x_px |-> TruncDiv(w, 2) + TruncDiv(nr * (pt[2] - a.x_offset), z),
              y_px |-> TruncDiv(h, 2) + TruncDiv(nr * (a.y_offset - pt[3]), z)]

----------------------------------------------------------------------------
(* render_road, lib.rs 373-469: the depth solve of one row.  The result     *)
(* says whether the row scan of this segment goes on (ok) and, if so, the   *)
(* arguments z, z_local, t_local of render_road_line.                       *)

RowBreak == [ok |-> FALSE, z |-> 0, z_local |-> 0, t_local |-> 0]

FlatRow(h, nr, y, length, a) ==
    LET t_factor == isqrt(Shl(1, 2 * FP_POS) + a.y_slope * a.y_slope)
        vy  == y - h \div 2
        div == Shr(nr * a.y_slope, FP_POS) - vy
    IN  IF div = 0 THEN RowBreak
        ELSE LET z == a.z_offset + TruncDiv(a.z_offset * vy - a.y_offset * nr, div)
                 t_local == Shr((z - a.z_offset) * t_factor, FP_POS)
             IN  IF z < 0 THEN RowBreak
                 ELSE IF t_local < 0 \/ t_local >= length THEN RowBreak
                 ELSE [ok |-> TRUE, z |-> z, z_local |-> z - a.z_offset,
                       t_local |-> t_local]

CurvedRow(h, nr, y, y_curve, length, a) ==
    LET inv_near == TruncDiv(Shl(1, FP_POS), nr)
        tsqrtcurve == isqrt(Shl(Abs(y_curve), FP_POS))
        vy   == (y - h \div 2) * inv_near
        vym  == vy - a.y_slope
        disc == vym * vym + 4 * (Shr(a.z_offset * vy, FP_POS) - a.y_offset) * y_curve
    IN  IF disc < 0 THEN RowBreak
        ELSE LET sqrt_disc == Shl(isqrt(Shl(disc, FP_POS \div 2)), FP_POS - FP_POS \div 4)
                 z == TruncDiv(Shl(vym, FP_POS) - sqrt_disc, 2 * y_curve)
                 z_tmp == Shr(z, FP_POS \div 2)
                 t_local == tsqrtcurve * Shr(TruncDiv(z_tmp * z_tmp, 4), FP_POS)
             IN  IF z < 0 THEN RowBreak
                 ELSE IF t_local < 0 \/ t_local >= length THEN RowBreak
                 ELSE [ok |-> TRUE, z |-> z + a.z_offset, z_local |-> z,
                       t_local |-> t_local]

RowSolve(h, nr, y, y_curve, length, a) ==
    IF y_curve = 0 THEN FlatRow(h, nr, y, length, a)
    ELSE CurvedRow(h, nr, y, y_curve, length, a)

----------------------------------------------------------------------------
(* render_road_line, lib.rs 237-371.  fb is the pair of buffers the row     *)
(* writes: [horizon, drawn, calls].                                         *)

\* lib.rs 252-261: the per-pixel step and the road interval of the row.
RowGeometry(w, rw, base_tx, xo, xs, xc, z, z_local) ==
    LET tx_step == base_tx * z
        z_tmp == Shr(z_local, FP_POS \div 2)
        tx == TruncDiv(tx_step * (-w), 2) + Shl(xo, FP_POS)
              + xc * z_tmp * z_tmp + xs * z_local
    IN  [tx_step |-> tx_step, tx |-> tx,
         road_left  |-> IF tx_step = 0 THEN 0 ELSE 1 - TruncDiv(1 + rw + tx, tx_step),
         road_right |-> IF tx_step = 0 THEN 0 ELSE 1 + TruncDiv(rw - tx, tx_step)]

\* lib.rs 274-279: where the wedge diagonal of column x of row y starts.
LeftWedgeStart(w, x, y) ==
    IF x >= w THEN [x0 |-> w - 1, y_start |-> (y + 1) - (x - w + 1)]
    ELSE [x0 |-> x, y_start |-> y + 1]

\* lib.rs 328-333
RightWedgeStart(w, x, y) ==
    IF x < 0 THEN [x0 |-> 0, y_start |-> (y + 1) + x]
    ELSE [x0 |-> x, y_start |-> y + 1]

\* The diagonal of lib.rs 281-294 without the break at x0 < 0 (lib.rs 291).
RECURSIVE LeftDiagonalNoBreak(_, _, _)
LeftDiagonalNoBreak(x0, y0, fb) ==
    IF y0 < 0 THEN fb
    ELSE LET l   == fb.horizon[y0]
             fb1 == [fb EXCEPT
                       !.horizon[y0].begin = Max(l.begin, x0 + 1),
                       !.drawn = IF l.end > x0 THEN draw(@, x0, y0, "ground") ELSE @]
         IN  LeftDiagonalNoBreak(x0 - 1, y0 - 1, fb1)

\* lib.rs 281-294: for y0 in (0..y_start).rev(), starting at column x0.
RECURSIVE LeftDiagonal(_, _, _)
LeftDiagonal(x0, y0, fb) ==
    IF y0 < 0 THEN fb
    ELSE LET l   == fb.horizon[y0]
             fb1 == [fb EXCEPT
                       !.horizon[y0].begin = Max(l.begin, x0 + 1),
                       !.drawn = IF l.end > x0 THEN draw(@, x0, y0, "ground") ELSE @]
         IN  IF x0 - 1 < 0 THEN fb1 ELSE LeftDiagonal(x0 - 1, y0 - 1, fb1)

\* lib.rs 335-349
RECURSIVE RightDiagonal(_, _, _, _)
RightDiagonal(w, x0, y0, fb) ==
    IF y0 < 0 THEN fb
    ELSE LET l   == fb.horizon[y0]
             fb1 == [fb EXCEPT
                       !.horizon[y0].end = Min(l.end, x0),
                       !.drawn = IF l.begin <= x0 THEN draw(@, x0, y0, "ground") ELSE @]
         IN  IF x0 + 1 >= w THEN fb1 ELSE RightDiagonal(w, x0 + 1, y0 - 1, fb1)

\* lib.rs 273-295: for x in line.begin..road_left.  Columns x >= w + y have
\* y_start <= 0 and an empty inner loop, so the scan stops there.
RECURSIVE LeftWedge(_, _, _, _, _)
LeftWedge(w, y, x, road_left, fb) ==
    IF x >= road_left \/ x > w + y THEN fb
    ELSE LET s == LeftWedgeStart(w, x, y)
         IN  LeftWedge(w, y, x + 1, road_left, LeftDiagonal(s.x0, s.y_start - 1, fb))

\* lib.rs 327-350: for x in road_right..line.end.  Columns x < -y have
\* y_start <= 0 and an empty inner loop, so the scan starts there.
RECURSIVE RightWedge(_, _, _, _, _)
RightWedge(w, y, x, line_end, fb) ==
    IF x >= line_end THEN fb
    ELSE LET s == RightWedgeStart(w, x, y)
         IN  RightWedge(w, y, x + 1, line_end, RightDiagonal(w, s.x0, s.y_start - 1, fb))

\* for x in from..to { painter.draw(x, y, color) }
RECURSIVE DrawSpan(_, _, _, _, _)
DrawSpan(d, from, to, y, color) ==
    IF from >= to THEN d ELSE DrawSpan(draw(d, from, y, color), from + 1, to, y, color)

\* lib.rs 271-313: left side of the road.  Returns the buffers and line.begin.
LeftSide(w, y, style, line, g, road_begin, fb) ==
    CASE style = "Uphill" ->
           [fb |-> LeftWedge(w, y, line.begin, g.road_left, fb), begin |-> 0]
      [] style = "Flat" ->
           [fb |-> [fb EXCEPT !.drawn = DrawSpan(@, line.begin, road_begin, y, "ground")],
            begin |-> 0]
      [] style = "Downhill" ->
           [fb |-> fb, begin |-> IF line.begin > 0 THEN 0 ELSE road_begin]

\* lib.rs 325-368: right side of the road.  Returns the buffers and line.end.
RightSide(w, y, style, line, g, road_end, fb) ==
    CASE style = "Uphill" ->
           [fb |-> RightWedge(w, y, Max(g.road_right, -(y + 1)), line.end, fb),
            end |-> w]
      [] style = "Flat" ->
           [fb |-> [fb EXCEPT !.drawn = DrawSpan(@, road_end, line.end, y, "ground"),
                              !.calls = @ + 1],
            end |-> w]
      [] style = "Downhill" ->
           [fb |-> fb, end |-> IF line.end < w THEN w ELSE road_end]

\* lib.rs 263-370, for a row whose tx_step is not zero.
render_road_line(w, rw, style, g, y, fb) ==
    LET line == fb.horizon[y]
        road_begin == Min(Max(g.road_left, line.begin), line.end)
        road_end   == Min(Max(g.road_right, line.begin), line.end)
        fb0  == [fb EXCEPT !.calls = @ + 1]
        left == LeftSide(w, y, style[1], line, g, road_begin, fb0)
        mid  == [left.fb EXCEPT
                   !.drawn = DrawSpan(@, road_begin, road_end, y, "road"),
                   !.calls = @ + Max(road_end - road_begin, 0)]
        right == RightSide(w, y, style[2], line, g, road_end, mid)
    IN  [right.fb EXCEPT
           !.horizon[y] = [road |-> TRUE, begin |-> left.begin, end |-> right.end]]

----------------------------------------------------------------------------
(* render_sky, lib.rs 121-143 *)

\* How many times the sky pass draws pixel x of a row with record line.
SkyDraws(w, line, x) ==
    IF line.road
    THEN (IF 0 <= x /\ x < line.begin THEN 1 ELSE 0)
         + (IF line.end <= x /\ x < w THEN 1 ELSE 0)
    ELSE (IF line.begin <= x /\ x < line.end THEN 1 ELSE 0)

SkyColors(k) == IF k = 0 THEN <<>> ELSE IF k = 1 THEN <<"sky">> ELSE <<"sky", "sky">>

\* The columns the two loops of a row can reach.
SkyColumns(w, line) ==
    Min(0, Min(line.begin, line.end)) .. Max(w, Max(line.begin, line.end))

render_sky(w, h, hor, d) ==
    LET sky == UNION {{<<x, y>> : x \in {c \in SkyColumns(w, hor[y]) :
                                             SkyDraws(w, hor[y], c) > 0}} :
                      y \in 0 .. h - 1}
    IN  [p \in DOMAIN d \cup sky |->
           (IF p \in DOMAIN d THEN d[p] ELSE <<>>)
           \o (IF p \in sky THEN SkyColors(SkyDraws(w, hor[p[2]], p[1])) ELSE <<>>)]

----------------------------------------------------------------------------
(* Inputs *)

ScreenW == 6
ScreenH == 6
MaxCurT == 4096

Styles == {"Uphill", "Flat", "Downhill"}

Segment(l, r, length, x_curve, y_curve) ==
    [side_style |-> <<l, r>>, length |-> length, x_curve |-> x_curve,
     y_curve |-> y_curve]

\* A short straight stretch and a longer curved one, with every shoulder pair.
Segments ==
    {Segment(l, r, 4096, 0, 0) : l \in Styles, r \in Styles}
    \cup {Segment(l, r, 8192, -10, -10) : l \in Styles, r \in Styles}

\* One very long straight segment with flat shoulders.
StraightTrack == <<Segment("Flat", "Flat", 4194304, 0, 0)>>

\* One segment bending sideways on level ground, with Uphill shoulders.
BendTrack == <<Segment("Uphill", "Uphill", 8192, -10, 0)>>

SegmentLists ==
    {<<>>, StraightTrack, BendTrack}
    \cup {<<s>> : s \in Segments}
    \cup {<<s1, s2>> : s1 \in Segments, s2 \in Segments}

Frame(w, h, ix, iy, rw) ==
    [w |-> w, h |-> h, initial_x_offset |-> ix, initial_y_offset |-> iy,
     road_width |-> rw]

\* The frames a render is called with: a small screen with the camera on or
\* above the road plane, centred or shifted; on the straight track, the
\* 320 x 240 screen with zero offsets; and, on the bend, the small screen
\* with the road far to the right of the camera.
Frames(segs) ==
    {Frame(ScreenW, ScreenH, ix, iy, 65536) : ix \in {0, -256}, iy \in {0, 128}}
    \cup (IF segs = StraightTrack THEN {Frame(320, 240, 0, 0, 65536)} ELSE {})
    \cup (IF segs = BendTrack THEN {Frame(ScreenW, ScreenH, 1024, 128, 65536)} ELSE {})

Steps == {2048}
Targets == {40000}

NoFrame ==
    /\ screen = <<0, 0>>
    /\ road_width = 0
    /\ x_offset = 0 /\ y_offset = 0 /\ z_offset = 0
    /\ x_slope = 0 /\ y_slope = 0
    /\ t_start = 0 /\ y_start = 0 /\ render_segment = 0
    /\ horizon = <<>>
    /\ drawn = <<>>
    /\ surface_calls = 0
    /\ clamped = FALSE

NoPoint ==
    point = [called |-> FALSE, at |-> new_pos, screen |-> <<0, 0>>,
             camera |-> <<0, 0>>, target |-> <<0, 0, 0>>,
             panicked |-> FALSE, x_px |-> 0, y_px |-> 0, inv_z |-> 0]

NoSqrt == sq_num = 0 /\ sq_out = [n |-> 0, ovf |-> FALSE, done |-> FALSE]

----------------------------------------------------------------------------
(* The renderer: RoadRenderer::new, advance, set and render *)

\* RoadRenderer::new(segments, 32), lib.rs 94-102
Init ==
    /\ segments \in SegmentLists
    /\ near = 32
    /\ cur_segment = 0 /\ cur_t = 0 /\ base_t = 0
    /\ nonneg = TRUE
    /\ last_call = "new"
    /\ pc = "idle"
    /\ NoFrame
    /\ NoSqrt
    /\ NoPoint

SetPos(p) ==
    /\ cur_segment' = p.cur_segment
    /\ cur_t' = p.cur_t
    /\ base_t' = p.base_t

\* road.advance(step), lib.rs 104-112
Advance(step, cap) ==
    /\ pc = "idle"
    /\ cur_t + step <= cap
    /\ cur_t + step >= -cap
    /\ \E p \in {advance(segments, self, step)} : SetPos(p)
    /\ nonneg' = (nonneg /\ step >= 0)
    /\ last_call' = "advance"
    /\ UNCHANGED <<cfgVars, pc, frameVars, sqVars, ptVars>>

\* road.set(t), lib.rs 114-119
Set(t) ==
    /\ pc = "idle"
    /\ \E p \in {set(segments, self, t)} : SetPos(p)
    /\ nonneg' = (t >= 0)
    /\ last_call' = "set"
    /\ UNCHANGED <<cfgVars, pc, frameVars, sqVars, ptVars>>

\* render::<P, W, H>(painter, initial_x_offset, initial_y_offset) is entered:
\* lib.rs 478-493.
Render(f) ==
    /\ pc = "idle"
    /\ screen' = <<f.w, f.h>>
    /\ road_width' = f.road_width
    /\ x_offset' = f.initial_x_offset
    /\ y_offset' = f.initial_y_offset
    /\ x_slope' = 0 /\ y_slope' = 0 /\ z_offset' = 0
    /\ t_start' = cur_t
    /\ y_start' = f.h - 1
    /\ horizon' = InitialHorizon(f.w, f.h)
    /\ drawn' = <<>>
    /\ surface_calls' = 0
    /\ clamped' = FALSE
    /\ render_segment' = cur_segment
    /\ pc' = IF cur_segment < Len(segments) THEN "road" ELSE "sky"
    /\ UNCHANGED <<cfgVars, posVars, sqVars, ptVars>>

accumulator ==
    [x_offset |-> x_offset, y_offset |-> y_offset, z_offset |-> z_offset,
     x_slope |-> x_slope, y_slope |-> y_slope]

\* lib.rs 494-498 and 512: seg.length - local_t
LengthLeft ==
    segments[render_segment + 1].length
    - (IF render_segment = cur_segment THEN cur_t - base_t ELSE 0)

\* Whether an Uphill wedge loop of the row reaches a column x >= w (left,
\* lib.rs 276) or x < 0 (right, lib.rs 330).
WedgeStartsOffScreen(w, style, g, line) ==
    \/ style[1] = "Uphill" /\ g.road_left > w /\ line.begin < g.road_left
    \/ style[2] = "Uphill" /\ g.road_right < 0 /\ g.road_right < line.end

\* One pass of the row loop of render_road (lib.rs 395-427 or 433-467) for the
\* segment seg: the loop ends (y < 0 or a break), or the row is rasterized by
\* render_road_line and the cursor moves up, or the division by tx_step = 0
\* at lib.rs 260 panics.  fb is [horizon, drawn, calls]; the result adds the
\* next position and row cursor.
render_road_row(w, h, nr, rw, seg, length, a, y, fb) ==
    LET base_tx == TruncDiv(Shl(1, FP_POS), nr)
        r == RowSolve(h, nr, y, seg.y_curve, length, a)
        g == RowGeometry(w, rw, base_tx, a.x_offset, a.x_slope, seg.x_curve,
                         r.z, r.z_local)
    IN  IF y < 0 \/ ~r.ok THEN [pc |-> "update", y |-> y, fb |-> fb, off |-> FALSE]
        ELSE IF g.tx_step = 0
        THEN [pc |-> "panicked", y |-> y, fb |-> fb, off |-> FALSE]
        ELSE [pc |-> "road", y |-> y - 1,
              fb |-> render_road_line(w, rw, seg.side_style, g, y, fb),
              off |-> WedgeStartsOffScreen(w, seg.side_style, g, fb.horizon[y])]

RenderRoadRow ==
    /\ pc = "road"
    /\ \E res \in {render_road_row(screen[1], screen[2], near, road_width,
                     segments[render_segment + 1], LengthLeft, accumulator, y_start,
                     [horizon |-> horizon, drawn |-> drawn, calls |-> surface_calls])} :
           /\ pc' = res.pc
           /\ y_start' = res.y
           /\ horizon' = res.fb.horizon
           /\ drawn' = res.fb.drawn
           /\ surface_calls' = res.fb.calls
           /\ clamped' = (clamped \/ res.off)
    /\ UNCHANGED <<cfgVars, posVars, sqVars, ptVars, screen, road_width, x_offset, y_offset,
                   z_offset, x_slope, y_slope, t_start, render_segment>>

\* After render_road returns: update_state_at_segment_length and t_start,
\* lib.rs 516-525, then the next segment or the sky pass.
RenderUpdate ==
    /\ pc = "update"
    /\ \E a \in {update_state_at_segment_length(segments[render_segment + 1],
                                                LengthLeft, accumulator)} :
           /\ x_offset' = a.x_offset
           /\ y_offset' = a.y_offset
           /\ z_offset' = a.z_offset
           /\ x_slope' = a.x_slope
           /\ y_slope' = a.y_slope
    /\ t_start' = t_start + LengthLeft
    /\ render_segment' = render_segment + 1
    /\ pc' = IF render_segment + 1 < Len(segments) THEN "road" ELSE "sky"
    /\ UNCHANGED <<cfgVars, posVars, sqVars, ptVars, screen, road_width, y_start, horizon,
                   drawn, surface_calls, clamped>>

\* self.render_sky(painter, (W, H), &horizon), lib.rs 528; render is done.
RenderSky ==
    /\ pc = "sky"
    /\ drawn' = render_sky(screen[1], screen[2], horizon, drawn)
    /\ pc' = "done"
    /\ UNCHANGED <<cfgVars, posVars, sqVars, ptVars, screen, road_width, x_offset, y_offset,
                   z_offset, x_slope, y_slope, t_start, y_start, render_segment,
                   horizon, surface_calls, clamped>>

\* render returns to its caller: its locals and the painter of the frame go.
RenderReturn ==
    /\ pc = "done"
    /\ pc' = "idle"
    /\ screen' = <<0, 0>>
    /\ road_width' = 0
    /\ x_offset' = 0 /\ y_offset' = 0 /\ z_offset' = 0
    /\ x_slope' = 0 /\ y_slope' = 0
    /\ t_start' = 0 /\ y_start' = 0 /\ render_segment' = 0
    /\ horizon' = <<>>
    /\ drawn' = <<>>
    /\ surface_calls' = 0
    /\ clamped' = FALSE
    /\ UNCHANGED <<cfgVars, posVars, sqVars, ptVars>>

Next ==
    \/ \E step \in Steps : Advance(step, MaxCurT)
    \/ \E t \in Targets : Set(t)
    \/ \E f \in Frames(segments) : Render(f)
    \/ RenderRoadRow
    \/ RenderUpdate
    \/ RenderSky
    \/ RenderReturn

Spec == Init /\ [][Next]_vars

\* The values of pc.
PcValues == {"idle", "road", "update", "sky", "done", "panicked"}

\* A step of a running render, seen on pc and the row cursor alone: every
\* RenderRoadRow, RenderUpdate and RenderSky step moves pc or lowers y_start,
\* and one of the three is enabled exactly when pc is "road", "update" or
\* "sky".
RenderRuns ==
    /\ pc \in {"road", "update", "sky"}
    /\ pc' \in PcValues
    /\ y_start' \in {y_start - 1, y_start}

\* render is synchronous code: once called it keeps executing, so a render
\* that can take a step eventually takes it.
FairSpec == Spec /\ WF_<<pc, y_start>>(RenderRuns)

----------------------------------------------------------------------------
(* The position sequencer alone, on short tracks with every step size *)

PosMaxT == 8

PosLengths == {0, 1, 3}

Track(lengths) == [i \in DOMAIN lengths |-> Segment("Flat", "Flat", lengths[i], 0, 0)]

PosSegmentLists ==
    {Track(<<>>)}
    \cup {Track(<<a>>) : a \in PosLengths}
    \cup {Track(<<a, b>>) : a \in PosLengths, b \in PosLengths}
    \cup {Track(<<a, b, c>>) : a \in PosLengths, b \in PosLengths, c \in PosLengths}

PosSteps == -2 .. 4
PosTargets == -1 .. PosMaxT

InitPos ==
    /\ segments \in PosSegmentLists
    /\ near = 32
    /\ cur_segment = 0 /\ cur_t = 0 /\ base_t = 0
    /\ nonneg = TRUE
    /\ last_call = "new"
    /\ pc = "idle"
    /\ NoFrame
    /\ NoSqrt
    /\ NoPoint

NextPos ==
    \/ \E step \in PosSteps : Advance(step, PosMaxT)
    \/ \E t \in PosTargets : Set(t)

SpecPos == InitPos /\ [][NextPos]_vars

----------------------------------------------------------------------------
(* isqrt alone, on small inputs, on the neighbours of perfect squares and   *)
(* on the largest i32 values                                                *)

SqrtSmall == 300

SqrtRoots ==
    {k \in {Pow2(j) + e : j \in 4 .. 15, e \in -1 .. 1} : k * k < MaxI32}
    \cup {181, 182, 1000, 23170, 23171, 46339, 46340}

SqrtInputs ==
    (0 .. SqrtSmall)
    \cup {k * k + e : k \in SqrtRoots, e \in -1 .. 1}
    \cup {MaxI32 - 1, MaxI32}

InitSqrt ==
    /\ segments = <<>>
    /\ near = 32
    /\ cur_segment = 0 /\ cur_t = 0 /\ base_t = 0
    /\ nonneg = TRUE
    /\ last_call = "new"
    /\ pc = "idle"
    /\ NoFrame
    /\ sq_num \in SqrtInputs
    /\ sq_out = [n |-> 0, ovf |-> FALSE, done |-> FALSE]
    /\ NoPoint

\* let r = isqrt(sq_num)
IsqrtCall ==
    /\ ~sq_out.done
    /\ \E r \in {IsqrtRun(sq_num)} :
           sq_out' = [n |-> r.n, ovf |-> r.ovf, done |-> TRUE]
    /\ UNCHANGED <<cfgVars, posVars, pc, frameVars, sq_num, ptVars>>

NextSqrt == IsqrtCall

SpecSqrt == InitSqrt /\ [][NextSqrt]_vars

----------------------------------------------------------------------------
(* get_screen_pos between position calls, on flat and curved tracks         *)

PointSegments ==
    {Segment("Flat", "Flat", 0, 0, 0), Segment("Flat", "Flat", 4096, 0, 0),
     Segment("Flat", "Flat", 8192, -10, -10)}

PointSegmentLists ==
    {<<>>} \cup {<<s>> : s \in PointSegments}
    \cup {<<s1, s2>> : s1 \in PointSegments, s2 \in PointSegments}

PointScreens == {<<320, 240>>, <<7, 5>>}
PointCameras == {<<0, 0>>, <<-256, 0>>, <<300, 128>>}
PointTargets == {<<0, 0, 0>>, <<1000, 0, 0>>, <<6000, 512, 0>>, <<0, 512, 64>>}

InitPoint ==
    /\ segments \in PointSegmentLists
    /\ near = 32
    /\ cur_segment = 0 /\ cur_t = 0 /\ base_t = 0
    /\ nonneg = TRUE
    /\ last_call = "new"
    /\ pc = "idle"
    /\ NoFrame
    /\ NoSqrt
    /\ NoPoint

\* road.get_screen_pos((w, h), camera_x, camera_y, t, x, y, ..), which takes
\* &self and changes nothing of the renderer; one call is followed per run.
GetScreenPos(scr, c, pt) ==
    /\ pc = "idle"
    /\ ~point.called
    /\ \E res \in {get_screen_pos(segments, near, self, scr[1], scr[2], c, pt)} :
           point' = [called |-> TRUE, at |-> self, screen |-> scr, camera |-> c,
                     target |-> pt, panicked |-> res.panicked,
                     x_px |-> res.x_px, y_px |-> res.y_px, inv_z |-> res.inv_z]
    /\ UNCHANGED <<cfgVars, posVars, pc, frameVars, sqVars>>

NextPoint ==
    \/ \E step \in Steps : Advance(step, MaxCurT)
    \/ \E t \in Targets : Set(t)
    \/ \E scr \in PointScreens : \E c \in PointCameras : \E pt \in PointTargets :
           GetScreenPos(scr, c, pt)

SpecPoint == InitPoint /\ [][NextPoint]_vars

----------------------------------------------------------------------------
(* Properties of one render call                                            *)

\* The pixels (x, y) of the screen of the running render.
Pixels == (0 .. screen[1] - 1) \X (0 .. screen[2] - 1)

\* C1 (coverage, no gap): when a render call has completed, every pixel
\* (x, y) with 0 <= x < W and 0 <= y < H has been passed to Painter::draw at
\* least once, by render_road_line or by render_sky.
EveryPixelPainted ==
    pc = "done" => \A p \in Pixels : p \in DOMAIN drawn

\* C2 (no overlap): at no point of a render call has a pixel been passed to
\* Painter::draw more than once.
NoPixelPaintedTwice ==
    \A p \in DOMAIN drawn : Len(drawn[p]) <= 1

SkyOnlyRendered ==
    /\ pc = "done"
    /\ segments # <<>>
    /\ cur_segment = Len(segments)
    /\ DOMAIN drawn = Pixels

\* C4 (no division by zero): the render of one Flat/Flat segment without
\* curvature, near = 32, W = 320, H = 240 and zero initial offsets never
\* divides by tx_step = 0.
StraightTrackNeverDividesByZero ==
    (segments = StraightTrack /\ near = 32 /\ screen = <<320, 240>>
        /\ x_offset = 0 /\ y_offset = 0)
        => pc # "panicked"

----------------------------------------------------------------------------
(* Properties of the position sequencer                                     *)

\* The position calls' non-negative arguments tried from each state.
AddArgs == 0 .. 4

\* The sum of the lengths of segs[0 .. k).
RECURSIVE SumLengths(_, _)
SumLengths(segs, k) == IF k = 0 THEN 0 ELSE SumLengths(segs, k - 1) + segs[k].length

\* One advance(step) call.
AdvanceStep(step) == Advance(step, PosMaxT)

\* C5 (advance is additive, set is its replay): from every reachable
\* position, advance(a); advance(b) and advance(a + b) end in the same
\* (cur_segment, cur_t, base_t) for all a, b >= 0; and a position reached
\* from new() by non-negative advances (cur_t is the sum of their steps) is
\* the one set(cur_t) ends in, whatever state set is called from.  (Before
\* the first call the position is the one new() builds, segment 0 even if
\* that segment has length 0.)
AdvanceAdditiveSetReplays ==
    /\ \A a \in AddArgs : \A b \in AddArgs :
           advance(segments, advance(segments, self, a), b)
               = advance(segments, self, a + b)
    /\ (nonneg /\ last_call # "new") =>
           \A from \in {new_pos, self, advance(segments, self, 1)} :
               set(segments, from, cur_t) = self

\* Several non-negative advances have crossed two segments and stopped
\* inside a third.
AdvancedIntoThirdSegment ==
    /\ last_call = "advance"
    /\ nonneg
    /\ cur_segment = 2
    /\ Len(segments) = 3
    /\ cur_t > base_t

\* C6 as stated (position invariant): in every reachable state
\* cur_t >= base_t >= 0 and base_t is the sum of the lengths of the segments
\* before cur_segment.
PositionInvariant ==
    /\ cur_t >= base_t
    /\ base_t >= 0
    /\ base_t = SumLengths(segments, cur_segment)

\* C6 amended: in every reachable state base_t >= 0 and base_t is the sum of
\* the lengths of the segments before cur_segment; cur_t >= base_t holds
\* while every argument since new() or the last set(t) was non-negative.
PositionInvariantNonNegative ==
    /\ base_t >= 0
    /\ base_t = SumLengths(segments, cur_segment)
    /\ nonneg => cur_t >= base_t

\* A negative advance has moved cur_t back below the start of the segment
\* the earlier advances had reached.
SteppedBackBelowBase ==
    /\ last_call = "advance"
    /\ ~nonneg
    /\ cur_segment > 0
    /\ base_t > 0
    /\ cur_t < base_t

\* C7 as stated (cur_segment never decreases): no advance(step) or set(t)
\* call leaves cur_segment smaller than it was before the call.
SegmentNeverDecreases ==
    [][cur_segment' >= cur_segment]_vars

\* C7 amended: no advance(step) call, of any sign, leaves cur_segment
\* smaller than it was before the call (set(t) restarts from segment 0).
AdvanceNeverLowersSegment ==
    [][\A step \in PosSteps : AdvanceStep(step) => cur_segment' >= cur_segment]_vars

\* A negative advance was made from a later segment, which it has kept.
SteppedBackInLaterSegment ==
    /\ last_call = "advance"
    /\ ~nonneg
    /\ cur_segment = Len(segments)
    /\ Len(segments) > 1
    /\ cur_t < SumLengths(segments, Len(segments))

\* Where the position is once advance or set has been called with
\* non-negative arguments only.
SettledInSegment ==
    (nonneg /\ last_call # "new") =>
        /\ (cur_segment = Len(segments)) <=> (cur_t >= SumLengths(segments, Len(segments)))
        /\ cur_segment < Len(segments) =>
               /\ base_t <= cur_t
               /\ cur_t < base_t + segments[cur_segment + 1].length

\* C8 (end-of-track saturation): cur_segment <= segments.len() in every
\* reachable state; after advance / set with non-negative arguments
\* cur_segment = segments.len() exactly when cur_t >= the total track
\* length, and otherwise base_t <= cur_t < base_t + the current segment's
\* length; and once cur_segment = segments.len(), advance(step) adds step to
\* cur_t and leaves cur_segment and base_t as they are.
SaturatesAtEndOfTrack ==
    /\ [](cur_segment <= Len(segments) /\ SettledInSegment)
    /\ [][\A step \in PosSteps :
              (cur_segment = Len(segments) /\ AdvanceStep(step))
                  => /\ cur_t' = cur_t + step
                     /\ cur_segment' = cur_segment
                     /\ base_t' = base_t]_vars

\* An advance was made from the end of a track of three segments, past
\* the total length.
AdvancedPastEndOfTrack ==
    /\ last_call = "advance"
    /\ nonneg
    /\ Len(segments) = 3
    /\ cur_segment = Len(segments)
    /\ cur_t > base_t + 1

----------------------------------------------------------------------------
(* Termination of render                                                    *)

\* C9 (render terminates): every render call that has started eventually
\* returns.
RenderEventuallyReturns ==
    (pc \in {"road", "update", "sky"}) ~> (pc = "done")

\* Every render call that has started runs to its end or to the division
\* by zero of lib.rs 260: no loop of it runs forever.
RenderEventuallyStops ==
    (pc \in {"road", "update", "sky"}) ~> (pc \in {"done", "panicked"})

----------------------------------------------------------------------------
(* Properties of isqrt                                                      *)

\* C10 (isqrt is the floor of the square root): for every non-negative i32
\* n, isqrt(n) = r with r * r <= n < (r + 1) * (r + 1), the upper bound
\* written as n / (r + 1) < r + 1; isqrt(0) = 0;
\* isqrt(k * k) = k for every k >= 0 whose square is an i32; isqrt is
\* monotonic non-decreasing; and no ((n << 1) + b) << bshft of the run
\* overflows 32 bits.
IsqrtIsFloorSqrt ==
    sq_out.done =>
        /\ sq_out.n >= 0
        /\ sq_out.n * sq_out.n <= sq_num
        /\ sq_num \div (sq_out.n + 1) < sq_out.n + 1
        /\ sq_num = 0 => sq_out.n = 0
        /\ \A k \in SqrtRoots : sq_num = k * k => sq_out.n = k
        /\ \A m \in {sq_num - 1, Min(sq_num, MaxI32 - 1) + 1, 0, 255, 65536, MaxI32} :
               /\ (0 <= m /\ m <= sq_num) => isqrt(m) <= sq_out.n
               /\ (sq_num <= m /\ m <= MaxI32) => sq_out.n <= isqrt(m)
        /\ ~sq_out.ovf

\* isqrt has returned 46340 for the largest square of an i32.
IsqrtOfLargestSquare ==
    /\ sq_out.done
    /\ sq_num = 46340 * 46340
    /\ sq_out.n = 46340

----------------------------------------------------------------------------
(* Properties of get_screen_pos                                             *)

\* The segment the position p is in has no curvature, or p is past the end
\* of the track.
OnStraightSegment(p) ==
    p.cur_segment < Len(segments) =>
        /\ segments[p.cur_segment + 1].x_curve = 0
        /\ segments[p.cur_segment + 1].y_curve = 0

\* A get_screen_pos call for the point at the camera's own distance with
\* zero point offsets.
ZeroTargetCall == point.called /\ point.target = <<0, 0, 0>>

\* C11 as stated (zero target projects to the centre column): get_screen_pos
\* with point_t_offset = point_x_offset = point_y_offset = 0 on a segment
\* without curvature, or past the end of the track, returns x_px = W/2 and
\* inv_z > 0 for every camera offset, and divides by no zero.
ZeroTargetProjectsToCentre ==
    (ZeroTargetCall /\ OnStraightSegment(point.at)) =>
        /\ ~point.panicked
        /\ point.x_px = point.screen[1] \div 2
        /\ point.inv_z > 0

\* C11 amended: such a call divides by no zero (the zero depth is clamped to
\* one), returns inv_z = 1 << (3 * FP_POS) > 0, x_px = W/2 - near *
\* camera_x_offset and y_px = H/2 + near * camera_y_offset, at every
\* position and whether or not the current segment is curved; so x_px = W/2
\* exactly when camera_x_offset = 0.
ZeroTargetProjectsCameraOffset ==
    ZeroTargetCall =>
        /\ ~point.panicked
        /\ point.inv_z = Shl(1, 3 * FP_POS)
        /\ point.inv_z > 0
        /\ point.x_px = point.screen[1] \div 2 - near * point.camera[1]
        /\ point.y_px = point.screen[2] \div 2 + near * point.camera[2]
        /\ (point.x_px = point.screen[1] \div 2) <=> (point.camera[1] = 0)

\* The call was made inside a straight segment, after an advance, with the
\* camera off the centre line.
ZeroTargetSeenOffCentre ==
    /\ ZeroTargetCall
    /\ point.camera[1] # 0
    /\ point.at.cur_t > 0
    /\ point.at.cur_segment < Len(segments)
    /\ OnStraightSegment(point.at)
    /\ point.x_px # point.screen[1] \div 2

----------------------------------------------------------------------------
(* Properties of the row visibility records                                 *)

\* C12 (row records stay ordered): render starts from the record
\* (road = false, begin = 0, end = W) for every row, and at every point
\* during and after the frame every row record has
\* 0 <= begin <= end <= W, the rows moved by the Uphill back-patch or by
\* the Downhill branch included.
RowRecordsOrdered ==
    /\ (pc = "road" /\ y_start = screen[2] - 1 /\ render_segment = cur_segment
        /\ drawn = <<>>)
           => horizon = InitialHorizon(screen[1], screen[2])
    /\ \A y \in DOMAIN horizon :
           /\ 0 <= horizon[y].begin
           /\ horizon[y].begin <= horizon[y].end
           /\ horizon[y].end <= screen[1]

\* Each bound of a row record stays on the screen: 0 <= begin <= W and
\* 0 <= end <= W, whether or not begin <= end.
RowRecordsWithinScreen ==
    \A y \in DOMAIN horizon :
        /\ 0 <= horizon[y].begin /\ horizon[y].begin <= screen[1]
        /\ 0 <= horizon[y].end /\ horizon[y].end <= screen[1]

====
